---- MODULE Spec2Model ----
(***************************************************************************)
(* leptos-dyn-dom: the traversal-and-replacement engine (src/src/dom.rs)   *)
(* and the captured-children handle, with the entry point components and   *)
(* hydrate_body (src/src/lib.rs), as a state machine over a live node tree.*)
(*                                                                         *)
(* A node is a positive integer.  The tree is the function `children`      *)
(* (node -> ordered child list); a node's parent is derived from it.       *)
(* `matches` is the replacement predicate: the set of elements for which   *)
(* replace(&e) returns Some(view).                                         *)
(***************************************************************************)
EXTENDS Integers, Sequences, FiniteSets, TLC

\* Number of nodes of the initial tree.
MaxNodes == 4
\* Largest number of top-level nodes a built replacement mounts.
MaxRepl == 2
\* Number of hydrate_body calls, and of DOMContentLoaded events dispatched.
MaxCalls == 3
MaxEvents == 2

\* Option::None for a node reference, and for the Option<u32> of check_node.
None == 0
NoIndex == -1

VARIABLES
  kind,       \* node -> "elem" | "text"          (dyn_into::<Element>() succeeds or not)
  matches,    \* the elements replace(&e) returns Some for
  children,   \* node -> sequence of child nodes  (the live DOM)
  dom0,       \* the tree as it was before any operation ran
  calls,      \* the call stack: one frame per running hydrate_node call
  roots,      \* the root node of every hydrate_node call made so far, by call id
  returned,   \* ids of the hydrate_node calls that have returned
  tested,     \* log: every node passed to check_node, in order, with the call
  asked,      \* log: every element passed to replace, in order
  splices,    \* log: one record per Some(view) returned by replace
  cleanups,   \* callbacks registered with Owner::on_cleanup, in order; how says what
              \* the callback does: "drop" (dom.rs:84) or "remove" (lib.rs:308-312)
  aborted,    \* a panic unwound the program
  capture,    \* the OriginalChildren handle the application holds (or NoCapture)
  extracted,  \* the last clone_children call and what it returned (or NoExtract)
  phase,      \* "idle" | "running" | "done"
  disposed,   \* the registered callbacks (indices of cleanups) the owner has run
  failing,    \* the elements at which replace(&e), or the build of its view, panics
  loads,      \* one record per entry point component started: its on_load flag
  page        \* hydrate_body and the document: DONE, readyState, the listeners for
              \* DOMContentLoaded, and a log of the calls and events

vars == <<kind, matches, children, dom0, calls, roots, returned, tested,
          asked, splices, cleanups, aborted, capture, extracted, phase,
          disposed, failing, loads, page>>

domVars == <<kind, matches, children>>
logVars == <<tested, asked, splices, cleanups>>
handleVars == <<capture, extracted>>
ownerVars == <<disposed, failing, page>>
hostVars == <<disposed, failing, loads, page>>

----------------------------------------------------------------------------
(* Sequences *)

Range(s) == {s[i] : i \in DOMAIN s}

IndexOf(s, x) == CHOOSE i \in DOMAIN s : s[i] = x

Last(s) == s[Len(s)]

SortedSeq(S) ==
  [j \in 1..Cardinality(S) |-> CHOOSE x \in S : Cardinality({y \in S : y < x}) = j - 1]

----------------------------------------------------------------------------
(* The DOM operations the engine uses *)

\* Node::parent_node()
ParentNode(ch, n) ==
  IF \E p \in DOMAIN ch : n \in Range(ch[p])
  THEN CHOOSE p \in DOMAIN ch : n \in Range(ch[p])
  ELSE None

\* node.child_nodes().item(i), i counted from 0
Item(ch, p, i) == IF i < Len(ch[p]) THEN ch[p][i + 1] ELSE None

\* 0-based position of a node among its parent's children (NoIndex without parent)
PositionOf(ch, n) ==
  IF ParentNode(ch, n) = None THEN NoIndex ELSE IndexOf(ch[ParentNode(ch, n)], n) - 1

NextSibling(ch, n) ==
  IF ParentNode(ch, n) = None THEN None
  ELSE Item(ch, ParentNode(ch, n), PositionOf(ch, n) + 1)

\* Node::has_child_nodes()
HasChildNodes(ch, n) == Len(ch[n]) > 0

AlwaysElement(n) == TRUE

\* dyn_into::<Element>() is Ok
IsElement(n) == kind[n] = "elem"

\* replace(&e), or v.into_view().build(), panics
Fails(e) == e \in failing

\* replace(&e) is Some(_)
Replace(e) == e \in matches

\* v.into_view().build(): the state of a view with n top-level nodes, all new
NextId == Cardinality(DOMAIN children) + 1
Build(n) == [i \in 1..n |-> NextId + i - 1]

\* the tree with the built nodes created (not yet mounted anywhere)
WithBuilt(ch, rs) == [x \in DOMAIN ch \cup Range(rs) |-> IF x \in DOMAIN ch THEN ch[x] ELSE <<>>]

InsertAtEnd(ch, e, rs) ==
  LET p == ParentNode(ch, e)
  IN  IF p = None THEN ch ELSE [ch EXCEPT ![p] = @ \o rs]

InsertAfterThis(ch, e, rs) ==
  LET p == ParentNode(ch, e)
  IN  IF p = None THEN ch
      ELSE LET k == IndexOf(ch[p], e)
           IN  [ch EXCEPT ![p] = SubSeq(@, 1, k) \o rs \o SubSeq(@, k + 1, Len(@))]

\* e.insert_before_this(&mut r): mounts r's nodes before e in e's parent;
\* does nothing (returns false) when e has no parent
InsertBeforeThis(ch, e, rs) ==
  LET p == ParentNode(ch, e)
  IN  IF p = None THEN ch
      ELSE LET k == IndexOf(ch[p], e)
           IN  [ch EXCEPT ![p] = SubSeq(@, 1, k - 1) \o rs \o SubSeq(@, k, Len(@))]

RemoveWithPrevious(ch, e) ==
  LET p == ParentNode(ch, e)
  IN  IF p = None THEN ch
      ELSE LET k == IndexOf(ch[p], e)
           IN  [ch EXCEPT ![p] = SubSeq(@, 1, k - 2) \o SubSeq(@, k + 1, Len(@))]

RemoveWithNext(ch, e) ==
  LET p == ParentNode(ch, e)
  IN  IF p = None THEN ch
      ELSE LET k == IndexOf(ch[p], e)
           IN  [ch EXCEPT ![p] = SubSeq(@, 1, k - 1) \o SubSeq(@, k + 2, Len(@))]

\* e.remove()
Remove(ch, e) ==
  LET p == ParentNode(ch, e)
  IN  IF p = None THEN ch
      ELSE LET k == IndexOf(ch[p], e)
           IN  [ch EXCEPT ![p] = SubSeq(@, 1, k - 1) \o SubSeq(@, k + 1, Len(@))]

NoScan(ch, p, e, start) == start

ScanThenStep(ch, p, e, start) == PositionOf(ch, e) + 1

\* while let Some(c) = p.child_nodes().item(start) { if c == *e {break}; start += 1 }
RECURSIVE ScanFor(_, _, _, _)
ScanFor(ch, p, e, start) ==
  IF Item(ch, p, start) # None /\ Item(ch, p, start) # e
  THEN ScanFor(ch, p, e, start + 1)
  ELSE start

----------------------------------------------------------------------------
(* check_node: the single-node test, and the splice when it matches *)

CheckNodeNoUnwrap(ch, node, start, rs) ==
  IF IsElement(node) /\ Replace(node)
  THEN LET ch1 == InsertBeforeThis(ch, node, rs)
           p   == ParentNode(ch1, node)
       IN  IF p = None
           THEN [ret |-> NoIndex, ch |-> ch1, panic |-> FALSE, registered |-> TRUE]
           ELSE [ret |-> ScanFor(ch1, p, node, start), ch |-> Remove(ch1, node),
                 panic |-> FALSE, registered |-> TRUE]
  ELSE [ret |-> NoIndex, ch |-> ch, panic |-> FALSE, registered |-> FALSE]

CheckNodeAlwaysRegisters(ch, node, start, rs) ==
  [CheckNodeNoUnwrap(ch, node, start, rs) EXCEPT
     !.panic = IsElement(node) /\ Replace(node) /\ ParentNode(ch, node) = None,
     !.registered = IsElement(node)]

CheckNodeReturnsNone(ch, node, start, rs) ==
  [CheckNodeNoUnwrap(ch, node, start, rs) EXCEPT
     !.panic = IsElement(node) /\ Replace(node) /\ ParentNode(ch, node) = None,
     !.ret = NoIndex]

CheckNodeSwallowsFailure(ch, node, start, rs) ==
  IF IsElement(node) /\ Fails(node)
  THEN [ret |-> NoIndex, ch |-> ch, panic |-> FALSE, registered |-> FALSE]
  ELSE [CheckNodeNoUnwrap(ch, node, start, rs) EXCEPT
          !.panic = IsElement(node) /\ Replace(node) /\ ParentNode(ch, node) = None]

\* check_node(node, start, replace), given the nodes rs the view builds and the
\* tree ch in which they exist.  ret is the Option<u32> (NoIndex for None),
\* ch the tree afterwards, panic whether parent_node().unwrap() panicked,
\* registered whether Owner::on_cleanup was reached.  A panic of replace or
\* of build() unwinds out of check_node before anything is inserted.
CheckNode(ch, node, start, rs) ==
  IF IsElement(node) /\ Fails(node)
  THEN [ret |-> NoIndex, ch |-> ch, panic |-> TRUE, registered |-> FALSE]
  ELSE IF IsElement(node) /\ Replace(node)
  THEN LET ch1 == InsertBeforeThis(ch, node, rs)
           p   == ParentNode(ch1, node)
       IN  IF p = None
           THEN [ret |-> NoIndex, ch |-> ch1, panic |-> TRUE, registered |-> TRUE]
           ELSE [ret |-> ScanFor(ch1, p, node, start), ch |-> Remove(ch1, node),
                 panic |-> FALSE, registered |-> TRUE]
  ELSE [ret |-> NoIndex, ch |-> ch, panic |-> FALSE, registered |-> FALSE]

\* The sizes a replacement of node may have: replace decides, the engine does not.
ReplSizes(node) ==
  IF IsElement(node) /\ Replace(node) /\ ~Fails(node) THEN 0..MaxRepl ELSE {0}

\* check_node on the live tree with a view that builds n top-level elements
Checked(node, start, n) ==
  CheckNode(WithBuilt(children, Build(n)), node, start, Build(n))

\* What one check_node call does to the tree and to the logs.
CheckEffects(id, node, start, n) ==
  LET res == Checked(node, start, n)
      hit == IsElement(node) /\ Replace(node) /\ ~Fails(node)
  IN  /\ children' = res.ch
      /\ kind' = [x \in DOMAIN res.ch |-> IF x \in DOMAIN kind THEN kind[x] ELSE "elem"]
      /\ matches' = matches
      /\ tested' = Append(tested, [call |-> id, node |-> node])
      /\ asked' = IF IsElement(node) THEN Append(asked, node) ELSE asked
      /\ splices' = IF hit
                    THEN Append(splices,
                           [call |-> id, elem |-> node,
                            par |-> ParentNode(children, node),
                            idx |-> PositionOf(children, node),
                            next |-> NextSibling(children, node),
                            repl |-> Build(n), ret |-> res.ret,
                            pos |-> Len(tested) + 1])
                    ELSE splices
      /\ cleanups' = IF res.registered
                     THEN Append(cleanups, [call |-> id, elem |-> node, nodes |-> Build(n),
                                            how |-> "drop"])
                     ELSE cleanups
      /\ aborted' = res.panic

----------------------------------------------------------------------------
(* hydrate_node: the walk *)

\* One running call.  kind "hydrate": a hydrate_node call, with its root (node),
\* its loop state (current, index, stack) and, while check_node waits for the
\* view it builds, the element under test (elem), the index it was given
\* (start), its place in the log (pos) and the nodes built so far (built).
\* kind "children": a DomChildrenCont, with the captured element (node), the
\* node its children are rendered into (target) and the children still to walk.
\* the walk starting at the parent of the node it was given
FrameAtParent(id, root, current, index, stack) ==
  [kind |-> "hydrate", id |-> id, pc |-> "loop", node |-> root,
   current |-> IF ParentNode(children, current) # None
               THEN ParentNode(children, current) ELSE current,
   index |-> index, stack |-> stack, elem |-> None, start |-> 0, pos |-> 0,
   built |-> <<>>, target |-> None, todo |-> <<>>]

Frame(id, root, current, index, stack) ==
  [kind |-> "hydrate", id |-> id, pc |-> "loop", node |-> root, current |-> current,
   index |-> index, stack |-> stack, elem |-> None, start |-> 0, pos |-> 0,
   built |-> <<>>, target |-> None, todo |-> <<>>]

Top == Last(calls)
SetTop(f) == [calls EXCEPT ![Len(calls)] = f]
Pop == SubSeq(calls, 1, Len(calls) - 1)

Running ==
  /\ phase = "running" /\ ~aborted /\ calls # <<>>
  /\ Top.kind = "hydrate" /\ Top.pc = "loop"

PushSameIndex(stack, old, index) == Append(stack, <<old, index>>)

PeekFrame(stack) == stack

\* stack.pop(): the stack without its last frame
PopFrame(stack) == SubSeq(stack, 1, Len(stack) - 1)

\* stack.push((old, index + 1))
PushFrame(stack, old, index) == Append(stack, <<old, index + 1>>)

HydrateNodeWithoutRootTest(r) ==
  /\ phase = "idle" /\ ~aborted
  /\ r \in DOMAIN children
  /\ roots' = Append(roots, r)
  /\ calls' = <<Frame(Len(roots) + 1, r, r, 0, <<>>)>>
  /\ phase' = "running"
  /\ UNCHANGED <<domVars, logVars, dom0, returned, aborted, handleVars, hostVars>>

\* hydrate_node(node, replace), up to the first loop iteration:
\* the root is tested first; a replaced root ends the call.
HydrateNode(r) ==
  /\ phase = "idle" /\ ~aborted
  /\ r \in DOMAIN children
  /\ \E n \in ReplSizes(r) :
       LET id  == Len(roots) + 1
           res == Checked(r, 0, n)
       IN  /\ CheckEffects(id, r, 0, n)
           /\ roots' = Append(roots, r)
           /\ IF res.panic
              THEN /\ calls' = <<[Frame(id, r, r, 0, <<>>) EXCEPT !.pc = "check"]>>
                   /\ phase' = "running"
                   /\ returned' = returned
              ELSE IF res.ret # NoIndex
              THEN /\ calls' = <<>>
                   /\ phase' = "done"
                   /\ returned' = returned \cup {id}
              ELSE /\ calls' = <<Frame(id, r, r, 0, <<>>)>>
                   /\ phase' = "running"
                   /\ returned' = returned
  /\ UNCHANGED <<dom0, handleVars, hostVars>>

\* The branch an iteration of the loop takes, for the child c at index:
\* check_node gives Some (or panics); it gives None and c has children; it
\* gives None and c has none; there is no child and a frame to pop; or none.
Child == Item(children, Top.current, Top.index)

ReplaceGuard(n) ==
  /\ Child # None
  /\ Checked(Child, Top.index, n).ret # NoIndex \/ Checked(Child, Top.index, n).panic

DescendGuard ==
  /\ Child # None
  /\ Checked(Child, Top.index, 0).ret = NoIndex /\ ~Checked(Child, Top.index, 0).panic
  /\ HasChildNodes(Checked(Child, Top.index, 0).ch, Child)

AdvanceGuard ==
  /\ Child # None
  /\ Checked(Child, Top.index, 0).ret = NoIndex /\ ~Checked(Child, Top.index, 0).panic
  /\ ~HasChildNodes(Checked(Child, Top.index, 0).ch, Child)

PopGuard == Child = None /\ Top.stack # <<>>

BreakGuard == Child = None /\ Top.stack = <<>>

\* if let Some(skip) = check_node(c, index, replace) { index = skip; continue }
LoopReplace ==
  /\ Running
  /\ LET f == Top
         c == Item(children, f.current, f.index)
     IN  /\ c # None
         /\ \E n \in ReplSizes(c) :
              LET res == Checked(c, f.index, n)
              IN  /\ ReplaceGuard(n)
                  /\ CheckEffects(f.id, c, f.index, n)
                  /\ calls' = IF res.panic THEN SetTop([f EXCEPT !.pc = "check"])
                              ELSE SetTop([f EXCEPT !.index = res.ret])
  /\ UNCHANGED <<dom0, roots, returned, handleVars, hostVars, phase>>

\* check_node gave None and c.has_child_nodes(): descend
LoopDescend ==
  /\ Running
  /\ LET f == Top
         c == Item(children, f.current, f.index)
     IN  /\ c # None
         /\ DescendGuard
         /\ CheckEffects(f.id, c, f.index, 0)
         /\ calls' = SetTop([f EXCEPT !.current = c, !.index = 0,
                                      !.stack = PushFrame(f.stack, f.current, f.index)])
  /\ UNCHANGED <<dom0, roots, returned, handleVars, hostVars, phase>>

\* check_node gave None and c has no children: index += 1
LoopAdvance ==
  /\ Running
  /\ LET f == Top
         c == Item(children, f.current, f.index)
     IN  /\ c # None
         /\ AdvanceGuard
         /\ CheckEffects(f.id, c, f.index, 0)
         /\ calls' = SetTop([f EXCEPT !.index = f.index + 1])
  /\ UNCHANGED <<dom0, roots, returned, handleVars, hostVars, phase>>

\* no child at index, a frame on the stack: pop it
LoopPop ==
  /\ Running
  /\ LET f == Top
     IN  /\ PopGuard
         /\ calls' = SetTop([f EXCEPT !.current = Last(f.stack)[1],
                                      !.index = Last(f.stack)[2],
                                      !.stack = PopFrame(f.stack)])
  /\ UNCHANGED <<domVars, logVars, dom0, roots, returned, aborted, handleVars, hostVars, phase>>

\* no child at index, stack empty: break, and hydrate_node returns
LoopBreak ==
  /\ Running
  /\ LET f == Top
     IN  /\ BreakGuard
         /\ calls' = Pop
         /\ returned' = returned \cup {f.id}
         /\ phase' = IF Len(calls) = 1 THEN "done" ELSE phase
  /\ UNCHANGED <<domVars, logVars, dom0, roots, aborted, handleVars, hostVars>>

----------------------------------------------------------------------------
(* OriginalChildren: the captured element and its children *)

\* The one thread of the host; SendWrapper remembers the thread that made it.
CurrentThread == "main"

NoCapture == [elem |-> None, thread |-> "none"]
NoExtract == [at |-> "none", elem |-> None, detached |-> FALSE, failed |-> FALSE,
              result |-> <<>>]

ValidWhileAttached(h) == ParentNode(children, h.elem) # None

\* SendWrapper::valid(): the current thread is the thread that created the wrapper
Valid(h) == h.thread = CurrentThread

\* while let Some(c) = self.0.child_nodes().item(i) { vec.push(c); i += 1 }
RECURSIVE CollectFrom(_, _, _, _)
CollectFrom(ch, e, i, vec) ==
  IF Item(ch, e, i) # None
  THEN CollectFrom(ch, e, i + 1, Append(vec, Item(ch, e, i)))
  ELSE vec

CloneChildrenFromOne(ch, e) == CollectFrom(ch, e, 1, <<>>)

\* OriginalChildren::clone_children, after its assertion
CloneChildren(ch, e) == CollectFrom(ch, e, 0, <<>>)

\* The element was in a parent before anything ran and is in none now.
Detached(e) == ParentNode(dom0, e) # None /\ ParentNode(children, e) = None

\* OriginalChildren::new(e): wraps a clone of the reference; the loop that
\* took the children out is commented out, so the tree is left as it is.
OriginalChildrenNew(e) ==
  /\ phase = "idle" /\ ~aborted
  /\ capture = NoCapture
  /\ e \in DOMAIN children /\ IsElement(e)
  /\ capture' = [elem |-> e, thread |-> CurrentThread]
  /\ UNCHANGED <<domVars, logVars, dom0, calls, roots, returned, aborted, extracted, phase, hostVars>>

\* clone_children(): panics unless the wrapper is valid, else collects the children
CloneChildrenCall ==
  /\ phase \in {"idle", "done"} /\ ~aborted
  /\ capture # NoCapture
  /\ extracted.at # phase
  /\ LET e == capture.elem
     IN  IF Valid(capture)
         THEN /\ extracted' = [at |-> phase, elem |-> e, detached |-> Detached(e),
                               failed |-> FALSE, result |-> CloneChildren(children, e)]
              /\ aborted' = aborted
         ELSE /\ extracted' = [at |-> phase, elem |-> e, detached |-> Detached(e),
                               failed |-> TRUE, result |-> <<>>]
              /\ aborted' = TRUE
  /\ UNCHANGED <<domVars, logVars, dom0, calls, roots, returned, capture, phase, hostVars>>

----------------------------------------------------------------------------
(* DomChildrenCont, and a predicate whose replacements re-embed the original  *)
(* children through it (MainBody / MyReplacementComponent of the crate docs). *)

\* The on_load flag of an entry point, and what is known of its run: the
\* component (entry), the nodes it is to walk (over), the hydrate_node calls it
\* has made (walks) and how often on_load.set(true) ran (sets).
Load(entry, over, sets) == [entry |-> entry, over |-> over, walks |-> {}, sets |-> sets]

SetsOnLoadFirst(stage) == stage = "start"

\* { do_children(..) or hydrate_node(..); if let Some(on_load) = on_load { on_load.set(true); } }
\* on_load.set(true) is the last statement of the closure of every entry point
SetsOnLoad(stage) == stage = "end"

OnLoadSets(stage) == IF SetsOnLoad(stage) THEN 1 ELSE 0

\* A running entry point: its flag is loads[k]; it walks the nodes of todo,
\* from their root on (pc "each") or below their root (pc "below").
ChildrenFrame(k, inner, target, todo) ==
  [kind |-> "children", id |-> k, pc |-> "each", node |-> inner, current |-> None,
   index |-> 0, stack |-> <<>>, elem |-> None, start |-> 0, pos |-> 0,
   built |-> <<>>, target |-> target, todo |-> todo]

\* do_children, first half: the extracted children are rendered at the view's place
Render(ch, inner, target, kids) ==
  [[ch EXCEPT ![inner] = <<>>] EXCEPT ![target] = @ \o kids]

\* A view <div><DomChildrenCont orig cont=replace/></div> is built for element e
\* while the call `waiting` (the frames below it are `below`) is inside check_node:
\* the div is created, the children of e are extracted and rendered into it, and
\* the DomChildrenCont starts to walk them.  lds are the flags so far.
StartBuild(below, waiting, e, lds) ==
  LET w    == Build(1)
      ch1  == WithBuilt(children, w)
      orig == [elem |-> e, thread |-> CurrentThread]
      kids == CloneChildren(ch1, e)
  IN  /\ Valid(orig)
      /\ children' = Render(ch1, e, w[1], kids)
      /\ kind' = [x \in DOMAIN ch1 |-> IF x \in DOMAIN kind THEN kind[x] ELSE "elem"]
      /\ calls' = below \o <<[waiting EXCEPT !.built = w],
                             ChildrenFrame(Len(lds) + 1, e, w[1], kids)>>
      /\ loads' = Append(lds, Load("DomChildrenCont", kids, OnLoadSets("start")))

\* <DomChildrenCont orig cont=replace/> at the top of the application's view:
\* orig captures element r, whose children are rendered at the mount point.
DomChildrenCont(r) ==
  /\ phase = "idle" /\ ~aborted
  /\ loads = <<>>
  /\ r \in DOMAIN children /\ IsElement(r)
  /\ LET m    == Build(1)
         ch1  == WithBuilt(children, m)
         orig == [elem |-> r, thread |-> CurrentThread]
         kids == CloneChildren(ch1, r)
     IN  /\ Valid(orig)
         /\ capture' = orig
         /\ children' = Render(ch1, r, m[1], kids)
         /\ kind' = [x \in DOMAIN ch1 |-> IF x \in DOMAIN kind THEN kind[x] ELSE "elem"]
         /\ calls' = <<ChildrenFrame(Len(loads) + 1, r, m[1], kids)>>
         /\ loads' = Append(loads, Load("DomChildrenCont", kids, OnLoadSets("start")))
  /\ phase' = "running"
  /\ UNCHANGED <<matches, logVars, dom0, roots, returned, aborted, extracted, ownerVars>>

InChildren ==
  /\ phase = "running" /\ ~aborted /\ calls # <<>>
  /\ Top.kind = "children"

\* do_children, second half: |c| hydrate_node(c.clone(), &cont) for the next child,
\* up to the first loop iteration of that call, to the build of c's replacement,
\* or to the panic of replace
ChildrenEach ==
  /\ InChildren
  /\ Top.pc = "each"
  /\ Top.todo # <<>>
  /\ LET f    == Top
         c    == Head(f.todo)
         id   == Len(roots) + 1
         rest == SetTop([f EXCEPT !.todo = Tail(f.todo)])
         mine == [loads EXCEPT ![f.id].walks = @ \cup {id}]
     IN  /\ roots' = Append(roots, c)
         /\ tested' = Append(tested, [call |-> id, node |-> c])
         /\ asked' = IF IsElement(c) THEN Append(asked, c) ELSE asked
         /\ IF IsElement(c) /\ Fails(c)
            THEN /\ calls' = Append(rest, [Frame(id, c, c, 0, <<>>) EXCEPT !.pc = "check"])
                 /\ aborted' = TRUE
                 /\ loads' = mine
                 /\ UNCHANGED <<children, kind>>
            ELSE IF IsElement(c) /\ Replace(c)
            THEN /\ StartBuild(rest, [Frame(id, c, c, 0, <<>>) EXCEPT
                                        !.pc = "build", !.elem = c, !.start = 0,
                                        !.pos = Len(tested) + 1], c, mine)
                 /\ aborted' = aborted
            ELSE /\ calls' = Append(rest, Frame(id, c, c, 0, <<>>))
                 /\ aborted' = aborted
                 /\ loads' = mine
                 /\ UNCHANGED <<children, kind>>
  /\ UNCHANGED <<matches, splices, cleanups, dom0, returned, handleVars, ownerVars, phase>>

\* every node has been walked: on_load.set(true), the entry point is done, and
\* the view that held it (if any) is built
ChildrenReturn ==
  /\ InChildren
  /\ Top.todo = <<>>
  /\ calls' = IF Len(calls) = 1 THEN <<>>
              ELSE [Pop EXCEPT ![Len(calls) - 1].pc = "built"]
  /\ loads' = [loads EXCEPT ![Top.id].sets = @ + OnLoadSets("end")]
  /\ phase' = IF Len(calls) = 1 THEN "done" ELSE phase
  /\ UNCHANGED <<domVars, logVars, dom0, roots, returned, aborted, handleVars, ownerVars>>

\* hydrate_node's loop: replace(&c) is Some(view), and the view starts building
LoopReplaceBegin ==
  /\ Running
  /\ LET f == Top
         c == Item(children, f.current, f.index)
     IN  /\ c # None
         /\ IsElement(c) /\ Replace(c) /\ ~Fails(c)
         /\ tested' = Append(tested, [call |-> f.id, node |-> c])
         /\ asked' = Append(asked, c)
         /\ StartBuild(Pop, [f EXCEPT !.pc = "build", !.elem = c, !.start = f.index,
                                      !.pos = Len(tested) + 1], c, loads)
  /\ UNCHANGED <<matches, splices, cleanups, dom0, roots, returned, aborted, handleVars,
                 ownerVars, phase>>

\* hydrate_node's loop: replace(&c), or the build of its view, panics
LoopReplacePanics ==
  /\ Running
  /\ LET f == Top
         c == Item(children, f.current, f.index)
     IN  /\ c # None
         /\ IsElement(c) /\ Fails(c)
         /\ tested' = Append(tested, [call |-> f.id, node |-> c])
         /\ asked' = Append(asked, c)
         /\ calls' = SetTop([f EXCEPT !.pc = "check"])
         /\ aborted' = TRUE
  /\ UNCHANGED <<domVars, splices, cleanups, dom0, roots, returned, handleVars,
                 hostVars, phase>>

\* check_node after build(): insert_before_this, on_cleanup, the scan, e.remove();
\* then hydrate_node returns (the root was replaced) or continues at the index
CheckNodeFinish ==
  /\ phase = "running" /\ ~aborted /\ calls # <<>>
  /\ Top.kind = "hydrate" /\ Top.pc = "built"
  /\ LET f   == Top
         e   == f.elem
         res == CheckNode(children, e, f.start, f.built)
     IN  /\ children' = res.ch
         /\ splices' = Append(splices,
                         [call |-> f.id, elem |-> e,
                          par |-> ParentNode(children, e),
                          idx |-> PositionOf(children, e),
                          next |-> NextSibling(children, e),
                          repl |-> f.built, ret |-> res.ret, pos |-> f.pos])
         /\ cleanups' = IF res.registered
                        THEN Append(cleanups, [call |-> f.id, elem |-> e, nodes |-> f.built,
                                               how |-> "drop"])
                        ELSE cleanups
         /\ aborted' = res.panic
         /\ IF res.panic
            THEN calls' = SetTop([f EXCEPT !.pc = "check"]) /\ returned' = returned
            ELSE IF e = f.node
            THEN calls' = Pop /\ returned' = returned \cup {f.id}
            ELSE /\ calls' = SetTop([f EXCEPT !.pc = "loop", !.index = res.ret,
                                              !.elem = None, !.built = <<>>])
                 /\ returned' = returned
  /\ UNCHANGED <<kind, matches, tested, asked, dom0, roots, handleVars, hostVars, phase>>

----------------------------------------------------------------------------
(* The owner: the callbacks handed to Owner::on_cleanup, and when they run *)

\* Node::parent_element(): the parent, when it is an element
ParentElement(ch, c) ==
  IF ParentNode(ch, c) # None /\ IsElement(ParentNode(ch, c)) THEN ParentNode(ch, c) ELSE None

\* p.remove_child(&c)
RemoveChild(ch, p, c) == [ch EXCEPT ![p] = SelectSeq(@, LAMBDA x : x # c)]

\* move || { drop(r) }: the callback of check_node releases the state of the
\* view it built; it calls nothing on the nodes of that view
DropState(ch, rs) == ch

\* move || { if let Some(p) = c.parent_element() { let _ = p.remove_child(&c); } }
CleanupCallback(ch, c) ==
  IF ParentElement(ch, c) # None THEN RemoveChild(ch, ParentElement(ch, c), c) ELSE ch

\* What running the registered callback cb does to the tree
RunCallback(ch, cb) ==
  IF cb.how = "drop" THEN DropState(ch, cb.nodes) ELSE CleanupCallback(ch, cb.nodes[1])

\* cleanup(node): registers the callback that removes node from its parent
Cleanup(c) == [call |-> 0, elem |-> c, nodes |-> <<c>>, how |-> "remove"]

\* <DomChildren orig/>: orig captures element e; its children are rendered at
\* the view's place m and cleanup is called on each of them.
DomChildren(e) ==
  /\ phase = "idle" /\ ~aborted
  /\ capture = NoCapture
  /\ e \in DOMAIN children /\ IsElement(e)
  /\ LET m    == Build(1)
         ch1  == WithBuilt(children, m)
         orig == [elem |-> e, thread |-> CurrentThread]
         kids == CloneChildren(ch1, e)
     IN  /\ Valid(orig)
         /\ capture' = orig
         /\ children' = Render(ch1, e, m[1], kids)
         /\ kind' = [x \in DOMAIN ch1 |-> IF x \in DOMAIN kind THEN kind[x] ELSE "elem"]
         /\ cleanups' = cleanups \o [i \in DOMAIN kids |-> Cleanup(kids[i])]
         /\ loads' = Append(loads, Load("DomChildren", kids,
                                        OnLoadSets("start") + OnLoadSets("end")))
  /\ UNCHANGED <<matches, tested, asked, splices, dom0, calls, roots, returned,
                 aborted, extracted, phase, ownerVars>>

\* The owner the callbacks were registered with is cleaned up, at a time of its
\* choosing outside any walk, and runs one of them.
OwnerCleanup(i) ==
  /\ phase \in {"idle", "done"} /\ ~aborted
  /\ i \in DOMAIN cleanups /\ i \notin disposed
  /\ children' = RunCallback(children, cleanups[i])
  /\ disposed' = disposed \cup {i}
  /\ UNCHANGED <<kind, matches, logVars, dom0, calls, roots, returned, aborted,
                 handleVars, phase, failing, loads, page>>

----------------------------------------------------------------------------
(* The other entry points: DomCont and DomStringCont *)

\* do_self: the original element is put back into the document, at the view's place
DoSelf(ch, inner, target) ==
  [Remove(ch, inner) EXCEPT ![target] = @ \o <<inner>>]

\* <DomCont orig cont=replace skip_head/>: orig captures element r, which is put
\* back at the mount point and walked: from r itself by hydrate_node, or below
\* r by hydrate_children after cleanup(r) when skip_head is set.
DomCont(r, skip_head) ==
  /\ phase = "idle" /\ ~aborted
  /\ loads = <<>>
  /\ r \in DOMAIN children /\ IsElement(r)
  /\ LET m    == Build(1)
         ch1  == WithBuilt(children, m)
         orig == [elem |-> r, thread |-> CurrentThread]
         f    == ChildrenFrame(Len(loads) + 1, r, m[1], <<r>>)
     IN  /\ capture' = orig
         /\ children' = DoSelf(ch1, r, m[1])
         /\ kind' = [x \in DOMAIN ch1 |-> IF x \in DOMAIN kind THEN kind[x] ELSE "elem"]
         /\ cleanups' = IF skip_head THEN Append(cleanups, Cleanup(r)) ELSE cleanups
         /\ calls' = <<IF skip_head THEN [f EXCEPT !.pc = "below"] ELSE f>>
         /\ loads' = Append(loads, Load("DomCont", <<r>>, OnLoadSets("start")))
  /\ phase' = "running"
  /\ UNCHANGED <<matches, tested, asked, splices, dom0, roots, returned, aborted,
                 extracted, ownerVars>>

\* hydrate_children(node, &cont): the walk of hydrate_node without the test of
\* the root
ChildrenBelow ==
  /\ InChildren
  /\ Top.pc = "below"
  /\ Top.todo # <<>>
  /\ LET f  == Top
         c  == Head(f.todo)
         id == Len(roots) + 1
     IN  /\ roots' = Append(roots, c)
         /\ calls' = Append(SetTop([f EXCEPT !.todo = Tail(f.todo)]), Frame(id, c, c, 0, <<>>))
         /\ loads' = [loads EXCEPT ![f.id].walks = @ \cup {id}]
  /\ UNCHANGED <<domVars, logVars, dom0, returned, aborted, handleVars, ownerVars, phase>>

\* <DomStringCont html cont=replace/>: the span r holds the nodes parsed from
\* html; once it is mounted its children are walked where they are.
DomStringCont(r) ==
  /\ phase = "idle" /\ ~aborted
  /\ loads = <<>>
  /\ r \in DOMAIN children /\ IsElement(r)
  /\ LET kids == CloneChildren(children, r)
     IN  /\ calls' = <<ChildrenFrame(Len(loads) + 1, r, r, kids)>>
         /\ loads' = Append(loads, Load("DomStringCont", kids, OnLoadSets("start")))
  /\ phase' = "running"
  /\ UNCHANGED <<domVars, logVars, dom0, roots, returned, aborted, handleVars, ownerVars>>

----------------------------------------------------------------------------
(* hydrate_body: the whole document, once *)

\* document.body(): the root of the tree
Body == 1

\* The page before any call: DONE is unset, the document is loading, nothing
\* listens.  Every listener is the cell `fun` of one call (TRUE: it holds go).
NoPage == [done |-> FALSE, ready |-> "loading", listeners |-> <<>>, hydrated |-> 0,
           log |-> <<>>]

NeverDone(pg) == FALSE

\* DONE.get().is_some()
AlreadyDone(pg) == pg.done

\* state == "complete" || state == "interactive"
Loaded(pg) == pg.ready \in {"complete", "interactive"}

\* go(): a new div nd takes every child of the body, in order, and the view
\* v(OriginalNode{inner: nd}) is mounted to the body (w is its node)
Go(ch) ==
  LET nd == Cardinality(DOMAIN ch) + 1
      w  == Cardinality(DOMAIN ch) + 2
  IN  [x \in DOMAIN ch \cup {nd, w} |->
         IF x = nd THEN ch[Body]
         ELSE IF x = w THEN <<>>
         ELSE IF x = Body THEN <<w>>
         ELSE ch[x]]

RECURSIVE GoTimes(_, _)
GoTimes(ch, n) == IF n = 0 THEN ch ELSE GoTimes(Go(ch), n - 1)

Ops(pg, op) == Cardinality({i \in DOMAIN pg.log : pg.log[i].op = op})

Logged(pg, op, ran) ==
  [pg EXCEPT !.log = Append(@, [op |-> op, ready |-> pg.ready, ran |-> ran]),
             !.hydrated = @ + ran]

\* hydrate_body(v)
HydrateBody ==
  /\ phase = "idle" /\ ~aborted
  /\ Ops(page, "call") < MaxCalls
  /\ IF AlreadyDone(page)
     THEN /\ page' = Logged(page, "call", 0)
          /\ UNCHANGED <<children, kind>>
     ELSE IF Loaded(page)
     THEN /\ page' = [Logged(page, "call", 1) EXCEPT !.done = TRUE]
          /\ children' = Go(children)
          /\ kind' = [x \in DOMAIN children' |-> IF x \in DOMAIN kind THEN kind[x] ELSE "elem"]
     ELSE /\ page' = [Logged(page, "call", 0) EXCEPT !.done = TRUE,
                                                     !.listeners = Append(@, TRUE)]
          /\ UNCHANGED <<children, kind>>
  /\ UNCHANGED <<matches, logVars, dom0, calls, roots, returned, aborted, handleVars,
                 phase, disposed, failing, loads>>

\* The document dispatches DOMContentLoaded: every listener runs
\* if let Some(f) = fun.take() { f() }
DomContentLoaded ==
  /\ phase = "idle" /\ ~aborted
  /\ Ops(page, "event") < MaxEvents
  /\ LET n == Cardinality({i \in DOMAIN page.listeners : page.listeners[i]})
     IN  /\ page' = [Logged(page, "event", n) EXCEPT
                       !.listeners = [i \in DOMAIN @ |-> FALSE]]
         /\ children' = GoTimes(children, n)
         /\ kind' = [x \in DOMAIN children' |-> IF x \in DOMAIN kind THEN kind[x] ELSE "elem"]
  /\ UNCHANGED <<matches, logVars, dom0, calls, roots, returned, aborted, handleVars,
                 phase, disposed, failing, loads>>

\* document.readyState moves on: loading, interactive, complete
ReadyStateChange ==
  /\ phase = "idle" /\ ~aborted
  /\ page.ready # "complete"
  /\ page' = [page EXCEPT !.ready = IF @ = "loading" THEN "interactive" ELSE "complete"]
  /\ UNCHANGED <<domVars, logVars, dom0, calls, roots, returned, aborted, handleVars,
                 phase, disposed, failing, loads>>

----------------------------------------------------------------------------
(* The initial tree: every ordered tree of MaxNodes nodes (numbered breadth   *)
(* first), every labelling of its leaves as element or text, every predicate. *)

TreeOf(par) == [n \in 1..MaxNodes |-> SortedSeq({i \in DOMAIN par : par[i] = n})]

InitTree ==
  /\ \E par \in [2..MaxNodes -> 1..MaxNodes] :
       /\ \A i \in DOMAIN par : par[i] < i
       /\ \A i \in DOMAIN par : i > 2 => par[i - 1] <= par[i]
       /\ children = TreeOf(par)
  /\ kind \in [1..MaxNodes -> {"elem", "text"}]
  /\ \A n \in 1..MaxNodes : HasChildNodes(children, n) => kind[n] = "elem"
  /\ matches \in SUBSET {n \in 1..MaxNodes : kind[n] = "elem"}
  /\ dom0 = children
  /\ calls = <<>>
  /\ roots = <<>>
  /\ returned = {}
  /\ tested = <<>>
  /\ asked = <<>>
  /\ splices = <<>>
  /\ cleanups = <<>>
  /\ aborted = FALSE
  /\ capture = NoCapture
  /\ extracted = NoExtract
  /\ phase = "idle"
  /\ disposed = {}
  /\ loads = <<>>
  /\ page = NoPage

\* a predicate and views that never panic
Init == InitTree /\ failing = {}

\* a predicate or a view that panics at one element (after the first panic
\* nothing runs, so one is as general as several)
InitFail ==
  /\ InitTree
  /\ \E e \in 1..MaxNodes : kind[e] = "elem" /\ failing = {e}

Next ==
  \/ \E r \in 1..MaxNodes : HydrateNode(r)
  \/ LoopReplace
  \/ LoopDescend
  \/ LoopAdvance
  \/ LoopPop
  \/ LoopBreak

Spec == Init /\ [][Next]_vars

\* The walk with a predicate that panics at some element
SpecFail == InitFail /\ [][Next]_vars

\* The crate documentation's composition: the top-level view and every
\* replacement re-embed the original children through DomChildrenCont.
NextCont ==
  \/ \E r \in 1..MaxNodes : DomChildrenCont(r)
  \/ ChildrenEach
  \/ ChildrenReturn
  \/ LoopReplaceBegin
  \/ CheckNodeFinish
  \/ LoopDescend
  \/ LoopAdvance
  \/ LoopPop
  \/ LoopBreak

SpecCont == Init /\ [][NextCont]_vars

\* The walk together with an application that captures an element beforehand
\* and extracts its children before or after the walk.
NextHandle ==
  \/ Next
  \/ \E e \in 1..MaxNodes : OriginalChildrenNew(e)
  \/ CloneChildrenCall

SpecHandle == Init /\ [][NextHandle]_vars

\* The walk in an application that also shows captured children through
\* DomChildren, with the owner that runs the registered callbacks.
NextOwner ==
  \/ Next
  \/ \E e \in 1..MaxNodes : DomChildren(e)
  \/ \E i \in 1..(2 * MaxNodes) : OwnerCleanup(i)

SpecOwner == Init /\ [][NextOwner]_vars

\* a predicate and views that may panic at one element
InitEntry ==
  /\ InitTree
  /\ \E e \in 0..MaxNodes : failing = {e} \cap {x \in 1..MaxNodes : kind[x] = "elem"}

\* The entry point components, each with an on_load flag, over the predicate
\* of the crate documentation.
NextEntry ==
  \/ \E e \in 1..MaxNodes : DomChildren(e)
  \/ \E r \in 1..MaxNodes : DomChildrenCont(r)
  \/ \E r \in 1..MaxNodes : \E skip_head \in BOOLEAN : DomCont(r, skip_head)
  \/ \E r \in 1..MaxNodes : DomStringCont(r)
  \/ ChildrenEach
  \/ ChildrenBelow
  \/ ChildrenReturn
  \/ LoopReplaceBegin
  \/ LoopReplacePanics
  \/ CheckNodeFinish
  \/ LoopDescend
  \/ LoopAdvance
  \/ LoopPop
  \/ LoopBreak

SpecEntry == InitEntry /\ [][NextEntry]_vars

\* hydrate_body takes a view, no predicate: the document alone varies
InitBody == Init /\ matches = {}

\* Calls of hydrate_body, and the document loading around them
NextBody ==
  \/ HydrateBody
  \/ DomContentLoaded
  \/ ReadyStateChange

SpecBody == InitBody /\ [][NextBody]_vars

----------------------------------------------------------------------------
(* Reading the logs *)

NodesOf(log) == [i \in DOMAIN log |-> log[i].node]

OfCall(log, id) == SelectSeq(log, LAMBDA t : t.call = id)

IsPrefix(s, t) == Len(s) <= Len(t) /\ SubSeq(t, 1, Len(s)) = s

\* Document pre-order of the subtree of n in tree ch, not entering the nodes of stop.
RECURSIVE PreOrder(_, _, _)
RECURSIVE PreOrderAll(_, _, _)
PreOrder(ch, stop, n) ==
  <<n>> \o (IF n \in stop THEN <<>> ELSE PreOrderAll(ch, stop, ch[n]))
PreOrderAll(ch, stop, s) ==
  IF s = <<>> THEN <<>> ELSE PreOrder(ch, stop, Head(s)) \o PreOrderAll(ch, stop, Tail(s))

\* The replacement the log records for element u (u was matched)
ReplOf(u) == (CHOOSE i \in DOMAIN splices : splices[i].elem = u)
Spliced == {splices[i].elem : i \in DOMAIN splices}

\* The child list s with every spliced element replaced by its replacement nodes
RECURSIVE Substituted(_)
Substituted(s) ==
  IF s = <<>> THEN <<>>
  ELSE (IF Head(s) \in Spliced THEN splices[ReplOf(Head(s))].repl ELSE <<Head(s)>>)
       \o Substituted(Tail(s))

----------------------------------------------------------------------------
(* Claims about the walk, for a predicate that leaves the tree alone (Spec) *)

\* C1: one call of hydrate_node passes to check_node every node that was
\* reachable from root when the call started exactly once, in document
\* pre-order, except the nodes inside an element replaced earlier in the call.
C1_Coverage ==
  \A id \in DOMAIN roots :
    LET expected == PreOrder(dom0, matches, roots[id])
        got      == NodesOf(OfCall(tested, id))
    IN  /\ IsPrefix(got, expected)
        /\ id \in returned => got = expected

\* a returned call that replaced an element with children, went on to a later
\* node, and tested a non-element too
C1_Witness ==
  /\ 1 \in returned
  /\ \E i \in DOMAIN splices :
       /\ dom0[splices[i].elem] # <<>>
       /\ splices[i].pos < Len(tested)
       /\ splices[i].pos > 1
  /\ \E j \in DOMAIN tested : ~IsElement(tested[j].node)

\* C2: after the call returns every matched element has no parent, and its
\* replacement nodes are contiguous children of its former parent, after every
\* untouched sibling that preceded it and before every one that followed it,
\* the untouched siblings keeping their relative order.
C2_ReplacedInPlace ==
  \A i \in DOMAIN splices :
    splices[i].call \in returned =>
      LET s   == splices[i]
          n   == Len(s.repl)
          old == dom0[s.par]
          cur == children[s.par]
          kept == Range(old) \cap Range(cur)
      IN  /\ ParentNode(children, s.elem) = None
          /\ \E k \in 1..(Len(cur) + 1) :
               /\ k + n - 1 <= Len(cur)
               /\ SubSeq(cur, k, k + n - 1) = s.repl
               /\ \A u \in kept :
                    /\ IndexOf(old, u) < IndexOf(old, s.elem) => IndexOf(cur, u) < k
                    /\ IndexOf(old, u) > IndexOf(old, s.elem) => IndexOf(cur, u) >= k + n
          /\ \A u, v \in kept :
               IndexOf(old, u) < IndexOf(old, v) => IndexOf(cur, u) < IndexOf(cur, v)

\* a replaced element that had an untouched sibling on each side
C2_Witness ==
  /\ 1 \in returned
  /\ \E i \in DOMAIN splices :
       LET s == splices[i]
       IN  /\ s.repl # <<>>
           /\ s.idx > 0
           /\ s.next # None
           /\ s.next \in Range(children[s.par])
           /\ dom0[s.par][s.idx] \in Range(children[s.par])

\* C3: replacing the child at index i by n top-level nodes makes check_node
\* return i + n; the parent's children become the old list with the child
\* replaced by the n nodes, and the next node tested is the child's former next
\* sibling ([A, B, C] with B -> [X, Y] gives [A, X, Y, C], then C is tested).
C3_IndexAfterSplice ==
  \A i \in DOMAIN splices :
    LET s == splices[i]
    IN  s.par # None =>
          /\ s.ret = s.idx + Len(s.repl)
          /\ s.call \in returned => children[s.par] = Substituted(dom0[s.par])
          /\ (s.pos > 1 /\ s.next # None) =>
               /\ Len(tested) > s.pos => tested[s.pos + 1].node = s.next
               /\ s.call \in returned => Len(tested) > s.pos

\* exactly the case [A, B, C], B -> [X, Y]
C3_Witness ==
  /\ 1 \in returned
  /\ Len(splices) = 1
  /\ LET s == splices[1]
     IN  /\ s.pos > 1 /\ Len(tested) > s.pos
         /\ s.idx = 1
         /\ Len(s.repl) = 2
         /\ Len(dom0[s.par]) = 3
         /\ children[s.par] = <<dom0[s.par][1]>> \o s.repl \o <<dom0[s.par][3]>>
         /\ tested[s.pos + 1].node = dom0[s.par][3]
         /\ s.ret = 3

\* C4: no node of a replacement a call inserted is passed to check_node, hence
\* to the predicate, by that call.
C4_NoReentry ==
  \A i \in DOMAIN splices :
    \A x \in Range(splices[i].repl) :
      /\ \A j \in DOMAIN tested :
           tested[j].call = splices[i].call => tested[j].node # x
      /\ x \notin Range(asked)

\* a replacement of two nodes was inserted and the walk went on past it
C4_Witness ==
  /\ 1 \in returned
  /\ \E i \in DOMAIN splices :
       /\ Len(splices[i].repl) = 2
       /\ splices[i].pos > 1
       /\ splices[i].pos < Len(tested)

\* C9: a replacement returned for an element without a parent is fatal there:
\* the program aborts, that element is the last node tested, and the call
\* never returns.
C9_NoParentIsFatal ==
  \A i \in DOMAIN splices :
    splices[i].par = None =>
      /\ aborted
      /\ i = Len(splices)
      /\ splices[i].pos = Len(tested)
      /\ splices[i].call \notin returned
      /\ phase # "done"

\* a detached root that matched and had children left to walk
C9_Witness ==
  /\ aborted
  /\ Len(tested) = 1
  /\ ParentNode(dom0, tested[1].node) = None
  /\ dom0[tested[1].node] # <<>>

\* C10: when hydrate_node has returned it has registered exactly one callback
\* for each element the predicate matched, and none for any other node.
C10_OneCleanupPerMatch ==
  \A id \in returned :
    LET regs == OfCall(cleanups, id)
        hits == {n \in Range(NodesOf(OfCall(tested, id))) : IsElement(n) /\ Replace(n)}
    IN  /\ Len(regs) = Cardinality(hits)
        /\ {regs[j].elem : j \in DOMAIN regs} = hits

\* two matches and an unmatched element in one returned call
C10_Witness ==
  /\ 1 \in returned
  /\ Len(cleanups) = 2
  /\ \E j \in DOMAIN tested : IsElement(tested[j].node) /\ ~Replace(tested[j].node)

----------------------------------------------------------------------------
(* Claims about the captured-children handle (SpecHandle) *)

\* C6: clone_children before any mutation returns every child the captured
\* element has, in document order, none missing and none twice.
C6_ExtractBeforeMutation ==
  (extracted.at = "idle" /\ ~extracted.failed) =>
    extracted.result = dom0[extracted.elem]

\* an extraction of two or more children before the walk
C6_Witness ==
  /\ extracted.at = "idle"
  /\ ~extracted.failed
  /\ Len(extracted.result) >= 2

C8_NewTakesChildren ==
  [][(capture = NoCapture /\ capture' # NoCapture) => children'[capture'.elem] = <<>>]_vars

----------------------------------------------------------------------------
(* Claims about the composition with DomChildrenCont (SpecCont) *)

Count(seq, x) == Cardinality({i \in DOMAIN seq : seq[i] = x})

RECURSIVE Descendants(_, _)
Descendants(ch, n) ==
  Range(ch[n]) \cup UNION {Descendants(ch, c) : c \in Range(ch[n])}

\* C5: when the top-level view and every replacement re-embed the original
\* children through DomChildrenCont with the same predicate, the predicate is
\* called exactly once on every element that was below the captured element,
\* the elements moved into an earlier replacement included; it is never called
\* twice on a node while the walks run.
C5_EveryElementOnce ==
  /\ \A x \in DOMAIN children : Count(asked, x) <= 1
  /\ phase = "done" =>
       \A x \in Descendants(dom0, capture.elem) :
         IsElement(x) => Count(asked, x) = 1

\* an element that was moved into a replacement and was itself replaced there,
\* with a later sibling of the outer element walked afterwards
C5_Witness ==
  /\ phase = "done"
  /\ \E i, j \in DOMAIN splices :
       /\ splices[j].elem \in Range(dom0[splices[i].elem])
       /\ splices[i].next # None
       /\ IsElement(splices[i].next)
       /\ Count(asked, splices[i].next) = 1

----------------------------------------------------------------------------
(* Claims about the order of the walk and what it leaves alone (Spec) *)

\* The node the walk reaches after the subtree of e, in the tree ch walked from
\* root: e's next sibling, or that of its nearest ancestor below root that has
\* one (None when the walk ends there).
RECURSIVE NodeAfter(_, _, _)
NodeAfter(ch, root, e) ==
  IF e = root \/ ParentNode(ch, e) = None THEN None
  ELSE IF NextSibling(ch, e) # None THEN NextSibling(ch, e)
  ELSE NodeAfter(ch, root, ParentNode(ch, e))

\* C17: hydrate_node tests its root first, with the same test as any other
\* node.  A matched root is replaced in place and the call returns without
\* testing a descendant; an unmatched root stays where it is and its
\* descendants are walked.
C17_RootFirst ==
  \A id \in DOMAIN roots :
    LET r    == roots[id]
        mine == NodesOf(OfCall(tested, id))
        p    == ParentNode(dom0, r)
    IN  /\ mine # <<>>
        /\ mine[1] = r
        /\ (kind[r] = "elem" /\ r \in matches /\ p # None) =>
             /\ id \in returned
             /\ mine = <<r>>
             /\ ParentNode(children, r) = None
             /\ children[p] = Substituted(dom0[p])
             /\ r \in Spliced
        /\ ~(kind[r] = "elem" /\ r \in matches) =>
             /\ ParentNode(children, r) = p
             /\ r \notin Spliced
             /\ id \in returned => Range(mine) = Range(PreOrder(dom0, matches, r))

\* a matched root with children under a parent: replaced, nothing below it tested
C17_Witness ==
  /\ 1 \in returned
  /\ roots[1] \in matches
  /\ dom0[roots[1]] # <<>>
  /\ ParentNode(dom0, roots[1]) # None
  /\ Len(tested) = 1
  /\ Len(splices[1].repl) = 2

\* C18: the walk never descends into an element it has replaced: no node that
\* was below it is tested by that call, and the next node tested is its former
\* next sibling or, without one, the node that follows its parent.
C18_NoDescent ==
  \A i \in DOMAIN splices :
    LET s   == splices[i]
        nxt == NodeAfter(dom0, roots[s.call], s.elem)
    IN  s.par # None =>
          /\ \A j \in DOMAIN tested :
               tested[j].call = s.call => tested[j].node \notin Descendants(dom0, s.elem)
          /\ Len(tested) > s.pos => tested[s.pos + 1].node = nxt
          /\ s.call \in returned => (Len(tested) > s.pos <=> nxt # None)

\* a replaced element that had a child and a next sibling: the child was never
\* tested and the sibling was tested next
C18_Witness ==
  /\ 1 \in returned
  /\ \E i \in DOMAIN splices :
       LET s == splices[i]
       IN  /\ dom0[s.elem] # <<>>
           /\ Len(s.repl) = 1
           /\ s.next # None
           /\ s.pos > 1 /\ Len(tested) > s.pos
           /\ tested[s.pos + 1].node = s.next
           /\ \A d \in Range(dom0[s.elem]) : d \notin Range(NodesOf(tested))

\* C19: the predicate is only ever called on elements.  A text or comment node
\* is tested without the predicate, is never replaced or detached, and the
\* walk goes on with the node that follows it.
C19_OnlyElementsAsked ==
  /\ \A i \in DOMAIN asked : kind[asked[i]] = "elem"
  /\ \A j \in DOMAIN tested :
       LET t   == tested[j].node
           nxt == NodeAfter(dom0, roots[tested[j].call], t)
       IN  kind[t] = "text" =>
             /\ t \notin Range(asked)
             /\ t \notin Spliced
             /\ ParentNode(children, t) = ParentNode(dom0, t)
             /\ Len(tested) > j => tested[j + 1].node = nxt
             /\ tested[j].call \in returned => (Len(tested) > j <=> nxt # None)

\* a text node between two elements, all three tested
C19_Witness ==
  /\ 1 \in returned
  /\ \E j \in DOMAIN tested :
       /\ j > 1 /\ j < Len(tested)
       /\ kind[tested[j].node] = "text"
       /\ kind[tested[j - 1].node] = "elem"
       /\ kind[tested[j + 1].node] = "elem"
       /\ tested[j + 1].node \in Range(asked)

\* C20: the walk changes the tree only by inserting replacement nodes and
\* detaching matched elements: every other node keeps its parent and its
\* children, in their order.
C20_Frame ==
  /\ \A x \in 1..MaxNodes :
       /\ children[x] = Substituted(dom0[x])
       /\ x \notin Spliced =>
            /\ ParentNode(children, x) = ParentNode(dom0, x)
            /\ SelectSeq(children[x], LAMBDA c : c \in 1..MaxNodes)
                 = SelectSeq(dom0[x], LAMBDA c : c \notin Spliced)
  /\ \A x \in DOMAIN children \ (1..MaxNodes) : children[x] = <<>>

\* an unmatched element that kept its child while its sibling was replaced
C20_Witness ==
  /\ 1 \in returned
  /\ \E i \in DOMAIN splices :
       /\ splices[i].par # None
       /\ splices[i].repl # <<>>
       /\ \E u \in Range(children[splices[i].par]) :
            /\ u \in 1..MaxNodes
            /\ dom0[u] # <<>>
            /\ children[u] = dom0[u]

----------------------------------------------------------------------------
(* Termination of the walk (Spec) *)

\* What is left to do: two for every node still to test, one for every frame
\* still to pop.
Rank ==
  2 * (Len(PreOrder(dom0, matches, Top.node)) - Len(tested)) + Len(Top.stack)

\* the loop has a branch to take
CanStep ==
  \/ Child # None /\ \E n \in ReplSizes(Child) : ReplaceGuard(n)
  \/ DescendGuard
  \/ AdvanceGuard
  \/ PopGuard
  \/ BreakGuard

\* C16: for a finite tree and a predicate that leaves the tree alone, a call of
\* hydrate_node terminates: the walk is one call with its own stack of frames,
\* never a nested call; while it runs an iteration of its loop is always
\* possible, and every iteration that does not end the call lowers a measure
\* that is never negative.  So a chain of single-child nodes is walked to its
\* last node in a bounded number of iterations.
C16_Terminates ==
  /\ [](Len(calls) <= 1)
  /\ [](Running => /\ Rank >= 0
                   /\ Len(Top.stack) < MaxNodes
                   /\ CanStep)
  /\ [][(Running /\ Running') => Rank' < Rank]_vars

\* the chain 1 - 2 - ... - MaxNodes, walked from its top to its last node
C16_Witness ==
  /\ phase = "done"
  /\ roots = <<1>>
  /\ \A n \in 1..(MaxNodes - 1) : dom0[n] = <<n + 1>>
  /\ matches = {}
  /\ NodesOf(tested) = [i \in 1..MaxNodes |-> i]

----------------------------------------------------------------------------
(* Claims about the registered callbacks (SpecOwner) *)

\* The callback check_node registered for the i-th splice
CallbackOf(i) ==
  CHOOSE c \in DOMAIN cleanups :
    /\ cleanups[c].how = "drop"
    /\ cleanups[c].call = splices[i].call
    /\ cleanups[c].elem = splices[i].elem

\* C11: the nodes of a replacement a walk inserted are not detached by that
\* walk: they are children of the matched element's former parent when the
\* call returns, and stay so at least until the owner runs the callback
\* registered for them.
C11_ReplacementStaysAttached ==
  \A i \in DOMAIN splices :
    LET s == splices[i]
    IN  (s.par # None /\ CallbackOf(i) \notin disposed) =>
          \A x \in Range(s.repl) : ParentNode(children, x) = s.par

\* the walk has returned and the owner has run another callback; a two-node
\* replacement whose callback has not run is still in place
C11_Witness ==
  /\ 1 \in returned
  /\ disposed # {}
  /\ \E i \in DOMAIN splices :
       /\ CallbackOf(i) \notin disposed
       /\ Len(splices[i].repl) = 2
       /\ \A x \in Range(splices[i].repl) : ParentNode(children, x) = splices[i].par

\* C12: running a registered callback detaches the nodes it owns from their
\* parent if they are attached, and leaves the tree as it is if they are
\* already detached.
C12_DisposalDetaches ==
  [][\A i \in DOMAIN cleanups :
       (i \notin disposed /\ i \in disposed') =>
         LET rs == Range(cleanups[i].nodes)
         IN  /\ \A x \in rs : ParentNode(children', x) = None
             /\ (\A x \in rs : ParentNode(children, x) = None) => children' = children]_vars

----------------------------------------------------------------------------
(* Claims about a panic of the predicate or of a view (SpecFail) *)

\* C15: when replace, or the build of the view it returned, panics at an
\* element, the call is over: it never returns, the element is the last node
\* tested and is left where it was, and nothing is undone: every element
\* replaced before stays detached with its replacement in place, and every
\* child list is the original one with exactly those elements substituted.
C15_FailureAborts ==
  \A j \in DOMAIN tested :
    LET f == tested[j].node
    IN  f \in failing =>
          /\ aborted
          /\ j = Len(tested)
          /\ tested[j].call \notin returned
          /\ phase # "done"
          /\ f \notin Spliced
          /\ ParentNode(children, f) = ParentNode(dom0, f)
          /\ Len(cleanups) = Len(splices)
          /\ \A i \in DOMAIN splices :
               /\ splices[i].par # None
               /\ ParentNode(children, splices[i].elem) = None
               /\ \A x \in Range(splices[i].repl) :
                    ParentNode(children, x) = splices[i].par
          /\ \A x \in 1..MaxNodes : children[x] = Substituted(dom0[x])

\* the predicate panicked at the second of three siblings, after the first had
\* been replaced by a node; the third was never tested
C15_Witness ==
  /\ aborted
  /\ Len(tested) = 3
  /\ tested[3].node \in failing
  /\ Len(splices) = 1
  /\ splices[1].elem = tested[2].node
  /\ Len(splices[1].repl) = 1
  /\ NextSibling(dom0, tested[3].node) # None
  /\ NextSibling(dom0, tested[3].node) \notin Range(NodesOf(tested))

----------------------------------------------------------------------------
(* Claims about the on_load flag of the entry points (SpecEntry) *)

\* the entry point whose flag is loads[k] has not returned yet
EntryRunning(k) ==
  \E i \in DOMAIN calls : calls[i].kind = "children" /\ calls[i].id = k

\* C13: the on_load flag of an entry point is set once, when the entry point
\* returns: it is not set while the entry point runs (so never if a panic ends
\* the run), and when it is set the entry point has made its walk of every
\* node it was to walk and each of these walks has returned; DomChildren, which
\* makes no walk, sets it when the children are rendered.
C13_OnLoadAfterWalk ==
  \A k \in DOMAIN loads :
    LET l == loads[k]
    IN  /\ l.sets <= 1
        /\ EntryRunning(k) => l.sets = 0
        /\ ~EntryRunning(k) => l.sets = 1
        /\ l.sets = 1 =>
             /\ l.walks \subseteq returned
             /\ l.entry # "DomChildren" =>
                  Cardinality(l.walks) = Len(l.over)
             /\ l.entry = "DomChildren" => l.walks = {}
             /\ {roots[id] : id \in l.walks} = IF l.entry = "DomChildren" THEN {} ELSE Range(l.over)

\* a DomChildrenCont over two children has set its flag after a walk that
\* replaced a child, whose own DomChildrenCont had set its flag before
C13_Witness ==
  /\ phase = "done"
  /\ Len(loads) >= 2
  /\ loads[1].entry = "DomChildrenCont"
  /\ Len(loads[1].over) = 2
  /\ loads[1].sets = 1
  /\ loads[2].sets = 1
  /\ splices # <<>>

\* a panic of the predicate inside a walk of DomCont: the flag stays unset
C13_WitnessAbort ==
  /\ aborted
  /\ loads # <<>>
  /\ loads[1].entry = "DomCont"
  /\ loads[1].sets = 0
  /\ Len(tested) >= 2

----------------------------------------------------------------------------
(* Claims about hydrate_body (SpecBody) *)

\* the first call of hydrate_body in the log (0: none yet)
FirstCall ==
  IF \E i \in DOMAIN page.log : page.log[i].op = "call"
  THEN CHOOSE i \in DOMAIN page.log :
         /\ page.log[i].op = "call"
         /\ \A j \in 1..(i - 1) : page.log[j].op # "call"
  ELSE 0

\* the i-th entry of the log is the first DOMContentLoaded after the first call
FirstEventAfterCall(i) ==
  /\ FirstCall # 0 /\ i > FirstCall
  /\ page.log[i].op = "event"
  /\ \A j \in (FirstCall + 1)..(i - 1) : page.log[j].op # "event"

\* C14: over any sequence of hydrate_body calls and DOMContentLoaded events the
\* body is hydrated at most once, and exactly by the first call when the
\* document was loaded at that call, else by the first event after that call;
\* no other call or event moves a node.
C14_HydratesOnce ==
  /\ page.hydrated <= 1
  /\ \A i \in DOMAIN page.log :
       page.log[i].ran =
         IF i = FirstCall /\ page.log[i].ready # "loading" THEN 1
         ELSE IF FirstEventAfterCall(i) /\ page.log[FirstCall].ready = "loading" THEN 1
         ELSE 0
  /\ page.hydrated = Cardinality({i \in DOMAIN page.log : page.log[i].ran = 1})
  /\ children = GoTimes(dom0, page.hydrated)

\* a call while the document was loading, the event that hydrated the body,
\* then another call and another event that did nothing
C14_Witness ==
  /\ Len(page.log) >= 4
  /\ page.log[1].op = "call" /\ page.log[1].ready = "loading"
  /\ page.log[2].op = "event" /\ page.log[2].ran = 1
  /\ page.log[3].op = "call"
  /\ page.log[4].op = "event"
  /\ page.hydrated = 1
  /\ dom0[Body] # <<>>
  /\ children[Body] # dom0[Body]

----------------------------------------------------------------------------
(* The walk is confined to the subtree of its root (Spec) *)

\* root and the nodes that were below it when the call started
Subtree(r) == {r} \cup Descendants(dom0, r)

\* the nodes of the original tree that are neither root nor below it
Outside(r) == (1..MaxNodes) \ Subtree(r)

\* C21: hydrate_node(root, replace) is confined to root's subtree: every node
\* passed to check_node, and so every element passed to replace, is root or
\* was below root; every node outside the subtree keeps its parent; and every
\* node outside the subtree keeps its child list, except that root's parent
\* has the replacement in the place of root when root itself matched.
C21_Confined ==
  \A k \in DOMAIN roots :
    LET r == roots[k]
        p == ParentNode(dom0, r)
    IN  /\ \A i \in DOMAIN asked : asked[i] \in Subtree(r)
        /\ \A i \in DOMAIN tested : tested[i].node \in Subtree(r)
        /\ \A i \in DOMAIN splices : splices[i].elem \in Subtree(r)
        /\ \A n \in Outside(r) :
             /\ ParentNode(children, n) = ParentNode(dom0, n)
             /\ n # p => children[n] = dom0[n]
        /\ p # None =>
             /\ r \notin Spliced => children[p] = dom0[p]
             /\ r \in Spliced =>
                  /\ Len(tested) = 1
                  /\ children[p] =
                       SubSeq(dom0[p], 1, PositionOf(dom0, r))
                         \o splices[ReplOf(r)].repl
                         \o SubSeq(dom0[p], PositionOf(dom0, r) + 2, Len(dom0[p]))
        /\ \A x \in DOMAIN children \ (1..MaxNodes) :
             \/ ParentNode(children, x) \in Subtree(r)
             \/ /\ r \in Spliced
                /\ x \in Range(splices[ReplOf(r)].repl)
                /\ ParentNode(children, x) = p

\* a call on a root below the document root returned after replacing a node
\* below its root, while a matching element beside the root was never asked
C21_Witness ==
  /\ 1 \in returned
  /\ ParentNode(dom0, roots[1]) # None
  /\ \E i \in DOMAIN splices :
       /\ splices[i].elem # roots[1]
       /\ splices[i].repl # <<>>
  /\ \E s \in Range(dom0[ParentNode(dom0, roots[1])]) :
       /\ s # roots[1]
       /\ s \in matches
       /\ s \notin Range(asked)
       /\ ParentNode(children, s) = ParentNode(dom0, s)

\* a matching root with a sibling on each side: the replacement took the
\* root's place between them and nothing else changed
C21_WitnessRoot ==
  /\ 1 \in returned
  /\ roots[1] \in Spliced
  /\ splices[ReplOf(roots[1])].repl # <<>>
  /\ LET p == ParentNode(dom0, roots[1])
     IN  /\ p # None
         /\ PositionOf(dom0, roots[1]) > 0
         /\ PositionOf(dom0, roots[1]) + 1 < Len(dom0[p])
         /\ Head(children[p]) = Head(dom0[p])
         /\ Last(children[p]) = Last(dom0[p])

====
